---- MODULE Spec2Model ----
(***************************************************************************)
(* The goalkeeper minigame of src/src/index.ts (class GoalkeeperGame) as a *)
(* state machine: one action per callback the browser can run (the         *)
(* continuation of initializeGame, an animation frame, a chat message, a   *)
(* pose result, the webcam promise settling) plus the passing of time.     *)
(*                                                                         *)
(* Units.  Lengths are in tenths of a world unit (the ball collider        *)
(* radius 0.8 is 8, the goal plane tolerance 0.5 is 5), normalised         *)
(* landmark coordinates are in tenths (0.5 is 5), times are in ms.         *)
(*                                                                         *)
(* The rigid-body engine (RAPIER) is not part of the repository.  Its      *)
(* step is modelled by what the game reads back from it: every ball body   *)
(* advances by its velocity, a collision event may be reported for a       *)
(* hand/ball, ball/goalpost or ball/ball pair whose colliders overlap, and *)
(* a ball that touches a solid collider may leave the contact with another *)
(* velocity (the hand colliders are no sensors).  The time unit of a frame *)
(* is coarse: a shot crosses the pitch in FlightFrames frames.  Gravity    *)
(* (0.01 downward) lowers a ball by GravityDrop per frame.  The goalposts  *)
(* and the crossbar are solid: a ball whose next position would overlap    *)
(* one of them stays where it is and is turned back.  A ball further than  *)
(* Far from the goal plane no longer moves.                                *)
(***************************************************************************)
EXTENDS Integers, Sequences, FiniteSets, TLC

(* ------------------------------ constants ------------------------------ *)

SHOT_INTERVAL == 2000
handColliderSize == 15
colliderSize == 8
ballImpulseMagnitude == 3
impulseMagnitude == 20
GOAL_BOUNDS == [minX |-> -70, maxX |-> 70, minY |-> 0, maxY |-> 70, z |-> 0]
GoalTolerance == 5
RearZ == -100
SpawnZ == 100
MinLandmarks == 33
\* gravity (0, -0.01, 0): a shot is about 0.3 lower at the goal plane than it
\* was aimed, taken as GravityDrop per frame of the model
GravityDrop == 1

(* ------------------------------- bounds -------------------------------- *)

StartTime == 10000      \* Date.now() when the page loads
MaxTicks == 2           \* the clock advances MaxTicks times, by TickMs each
FlightFrames == 4       \* frames a shot needs from z = SpawnZ to the goal plane
Far == 200              \* coordinates saturate at +-Far
MaxEvents == 2          \* collision events reported by one frame's substeps

TickMs == SHOT_INTERVAL \div 2

(* ------------------------------- inputs -------------------------------- *)

\* (Math.random() - 0.5) * 3 and Math.random() * 2 + 1
SpawnXs == {10}
SpawnYs == {20}
\* (Math.random() - 0.5) * 14 and Math.random() * 7
TargetXs == {10}
TargetYs == {20}
\* targets at the middle, the right post, the ground line and the crossbar
TargetXsWide == {10, 40, 70}
TargetYsWide == {0, 50, 70}
\* velocities a ball may leave a solid contact with, and the spin it takes
BounceVels == {[x |-> 0, y |-> -25, z |-> -25]}
Spin == [x |-> 1, y |-> 0, z |-> 0]
\* normalised landmarks delivered by the pose tracker
LmA == [x |-> 5, y |-> 7]
LmB == [x |-> 6, y |-> 4]
LmC == [x |-> 2, y |-> 9]
PoseLens == {0, 32, 33}
PoseLandmarks == {<<LmA, LmB, LmC>>}
\* the pose results of the specification that exercises the landmark mapper
LmGrid == {[x |-> 0, y |-> 10], [x |-> 10, y |-> 0], [x |-> 3, y |-> 4]}
PoseLensWide == {0, 16, 32, 33, 34}
\* chat messages, as sequences of characters: the command in mixed case and
\* the command followed by a space
Messages == {<<"!", "S", "h", "o", "o", "t">>,
             <<"!", "s", "h", "o", "o", "t", " ">>}
\* the messages of the specification that exercises the chat handler: the
\* command, the command in other case, with whitespace before or after, with a
\* prefix or a suffix, cut short, and another text
MessagesWide == {<<"!", "s", "h", "o", "o", "t">>,
             <<"!", "S", "H", "O", "O", "T">>,
             <<"!", "S", "h", "o", "o", "t">>,
             <<"!", "s", "h", "o", "o", "t", " ">>,
             <<" ", "!", "s", "h", "o", "o", "t">>,
             <<"!", "s", "h", "o", "o", "t", "s">>,
             <<"s", "!", "s", "h", "o", "o", "t">>,
             <<"!", "s", "h", "o", "o">>,
             <<"h", "o", "t">>}

(* ------------------------------- vectors ------------------------------- *)

Vec(a, b, c) == [x |-> a, y |-> b, z |-> c]
Zero == Vec(0, 0, 0)
\* where a hand is when a ball comes to it, and the ball's offset from the hand
SaveHands == {Vec(10, 16, 20), Vec(-30, 40, 20)}
SaveOffsets == {Vec(dx, dy, dz) : dx \in {-10, 0, 10}, dy \in {-10, 0, 10},
                                  dz \in {-5, 0, 5}}
Add(p, q) == Vec(p.x + q.x, p.y + q.y, p.z + q.z)
Abs(n) == IF n < 0 THEN -n ELSE n
Clamp(n) == IF n > Far THEN Far ELSE IF n < -Far THEN -Far ELSE n
ClampVec(p) == Vec(Clamp(p.x), Clamp(p.y), Clamp(p.z))
Dist2(p, q) == (p.x - q.x) * (p.x - q.x) + (p.y - q.y) * (p.y - q.y)
               + (p.z - q.z) * (p.z - q.z)
\* n / d rounded toward zero, as a velocity on the grid
Quot(n, d) == IF n < 0 THEN -((-n) \div d) ELSE n \div d

\* velocity change of a ball body from an impulse component: an impulse of
\* ballImpulseMagnitude moves a ball SpawnZ / FlightFrames per frame
ImpulseToVel(i) == Quot(i * (SpawnZ \div FlightFrames), ballImpulseMagnitude)

(* ------------------------------ colliders ------------------------------ *)

leftHandCollider == [kind |-> "hand", id |-> 0]
rightHandCollider == [kind |-> "hand", id |-> 1]
BallCollider(id) == [kind |-> "ball", id |-> id]
GoalCollider == [kind |-> "goal", id |-> 0]
Hands == {"left", "right"}
HandOf(c) == IF c = leftHandCollider THEN "left" ELSE "right"
DefaultHands == [left |-> Vec(-5, 16, 0), right |-> Vec(5, 16, 0)]

VARIABLES
    now,          \* Date.now()
    game,         \* "loading" | "halted" | "animating"
    initError,    \* what initializeGame caught: "none" | "physics" | "pose"
    worldReady,   \* this.rapierWorld is set
    webcam,       \* getUserMedia: "none" | "pending" | "granted" | "denied"
    lastShot,
    nextId,       \* identity of the next mesh/body/collider created
    balls,        \* this.balls: sequence of [mesh, body, collider, meshPos]
    bodies,       \* ball bodies of the physics world: id -> [pos, vel, ang]
    colliders,    \* ball colliders of the physics world (ids)
    scene,        \* ball meshes in the scene (ids)
    handMesh,     \* leftHandMesh.position, rightHandMesh.position
    handBody,     \* translation of the two kinematic hand bodies
    savesCount,
    goalsCount,
    sinks,        \* which of the display elements the page has
    display,      \* textContent of the two display elements
    eventQueue,   \* rapierWorld.eventQueue: the events not yet handled
    \* history
    shots,        \* times at which a ball was added to this.balls
    removedGoal,  \* ids of balls removed by the goal test
    removedRear,  \* ids of balls removed by the rear threshold
    contacts,     \* hand/ball collision events the world has reported
    touches,      \* <<ball, what>>: what a ball has met (a hand, a post, a ball, the ground line)
    lastEvents,   \* the events the last frame took from the queue
    savesAtFrame, \* savesCount when the last frame began
    lastPose,     \* the last pose result delivered: [present, arr]
    uncaught      \* handlers that let an exception escape

vars == <<now, game, initError, worldReady, webcam, lastShot, nextId, balls,
          bodies, colliders, scene, handMesh, handBody, savesCount, goalsCount,
          sinks, display, eventQueue, shots, removedGoal, removedRear, contacts, touches, lastEvents, savesAtFrame, lastPose, uncaught>>


AllSinks == {"saves", "goals"}
\* the text of a display element that was never written
NoText == <<>>

Construct ==
    /\ now = StartTime
    /\ game = "loading"
    /\ initError = "none"
    /\ worldReady = FALSE
    /\ webcam = "none"
    /\ lastShot = 0
    /\ nextId = 1
    /\ balls = <<>>
    /\ bodies = <<>>
    /\ colliders = {}
    /\ scene = {}
    /\ handMesh = DefaultHands
    /\ handBody = DefaultHands
    /\ savesCount = 0
    /\ goalsCount = 0
    /\ display = [saves |-> NoText, goals |-> NoText]
    /\ eventQueue = <<>>
    /\ shots = <<>>
    /\ removedGoal = {}
    /\ removedRear = {}
    /\ contacts = 0
    /\ touches = {}
    /\ lastEvents = <<>>
    /\ savesAtFrame = 0
    /\ lastPose = [present |-> FALSE, arr |-> <<>>]
    /\ uncaught = {}

\* the page has both display elements
Init == Construct /\ sinks = AllSinks

\* a page with any of the display elements missing
InitSinks == Construct /\ sinks \in SUBSET AllSinks

(* The fields a frame or a shot works on, as one record. *)
Cur == [ready |-> worldReady, lastShot |-> lastShot, nextId |-> nextId,
        balls |-> balls, bodies |-> bodies, colliders |-> colliders,
        scene |-> scene, handBody |-> handBody, savesCount |-> savesCount,
        goalsCount |-> goalsCount, sinks |-> sinks, display |-> display,
        eventQueue |-> eventQueue,
        shots |-> shots,
        removedGoal |-> removedGoal, removedRear |-> removedRear,
        contacts |-> contacts, touches |-> touches, threw |-> FALSE, blocked |-> {}]

Commit(st) ==
    /\ lastShot' = st.lastShot
    /\ nextId' = st.nextId
    /\ balls' = st.balls
    /\ bodies' = st.bodies
    /\ colliders' = st.colliders
    /\ scene' = st.scene
    /\ handBody' = st.handBody
    /\ savesCount' = st.savesCount
    /\ goalsCount' = st.goalsCount
    /\ display' = st.display
    /\ eventQueue' = st.eventQueue
    /\ shots' = st.shots
    /\ removedGoal' = st.removedGoal
    /\ removedRear' = st.removedRear
    /\ contacts' = st.contacts
    /\ touches' = st.touches

(* ------------------------------ displays ------------------------------- *)

\* this.savesCounter.textContent = `Saves: ${this.savesCount}`, when
\* document.getElementById found the element
ShowSaves(st, n) ==
    IF "saves" \in st.sinks
    THEN [st.display EXCEPT !.saves = <<"Saves: ", n>>]
    ELSE st.display

ShowGoals(st, n) ==
    IF "goals" \in st.sinks
    THEN [st.display EXCEPT !.goals = <<"Goals: ", n>>]
    ELSE st.display

(* ------------------------------ shootBall ------------------------------ *)

\* the impulse of a shot from (x, y, SpawnZ) toward (tx, ty, 0), as a velocity:
\* the direction of the force is kept, its length is the frame's time unit
ShotVel(x, y, tx, ty) ==
    Vec(Quot(tx - x, FlightFrames), Quot(ty - y, FlightFrames),
        Quot(-SpawnZ, FlightFrames))

shootBall(st, t, x, y, tx, ty) ==
    IF t - st.lastShot < SHOT_INTERVAL
    THEN st
    ELSE IF ~st.ready
    THEN \* this.rapierWorld is undefined: createRigidBody throws
         [st EXCEPT !.lastShot = t, !.threw = TRUE]
    ELSE [st EXCEPT
            !.lastShot = t,
            !.nextId = st.nextId + 1,
            !.bodies = st.bodies @@
                (st.nextId :> [pos |-> Vec(x, y, SpawnZ),
                               vel |-> ShotVel(x, y, tx, ty), ang |-> Zero]),
            !.colliders = st.colliders \cup {st.nextId},
            !.balls = Append(st.balls,
                [mesh |-> st.nextId, body |-> st.nextId,
                 collider |-> st.nextId, meshPos |-> Vec(x, y, SpawnZ)]),
            !.scene = st.scene \cup {st.nextId},
            !.shots = Append(st.shots, t)]

(* --------------------------- the physics step -------------------------- *)

BodyIds(st) == DOMAIN st.bodies

\* where the eight substeps of one frame take a free ball: it advances by its
\* velocity and gravity lowers it
NextPos(b) == ClampVec(Add(Add(b.pos, b.vel), Vec(0, -GravityDrop, 0)))

\* a ball at p would overlap a goalpost (cylinders of radius 0.15 at x = -7 and
\* x = 7, from the ground to the crossbar) or the crossbar (at y = 7)
PostOverlap(p) ==
    LET r == colliderSize + 1
    IN  /\ Abs(p.z - GOAL_BOUNDS.z) <= r
        /\ \/ /\ \/ Abs(p.x - GOAL_BOUNDS.minX) <= r
                  \/ Abs(p.x - GOAL_BOUNDS.maxX) <= r
              /\ p.y >= GOAL_BOUNDS.minY - r
              /\ p.y <= GOAL_BOUNDS.maxY + r
           \/ /\ Abs(p.y - GOAL_BOUNDS.maxY) <= r
              /\ p.x >= GOAL_BOUNDS.minX - r
              /\ p.x <= GOAL_BOUNDS.maxX + r

\* the fixed colliders of the goal are solid: a ball whose way leads into one
\* meets it during the frame
Blocked(st, id) == PostOverlap(NextPos(st.bodies[id]))

\* the velocity of a ball that met a post: it is turned back
Rebound(v) == Vec(v.x, v.y, -v.z)

\* the eight substeps of one frame for the ball bodies.  A position past Far
\* stands for every position out there and is not followed further.
Integrate(st) ==
    [st EXCEPT
      !.blocked = {id \in DOMAIN st.bodies :
                    Abs(st.bodies[id].pos.z) < Far /\ Blocked(st, id)},
      !.bodies =
        [id \in DOMAIN st.bodies |->
            IF Abs(st.bodies[id].pos.z) >= Far
            THEN st.bodies[id]
            ELSE IF Blocked(st, id)
            THEN [st.bodies[id] EXCEPT !.vel = Rebound(st.bodies[id].vel)]
            ELSE [st.bodies[id] EXCEPT !.pos = NextPos(st.bodies[id])]]]

\* a ball collider overlaps a hand collider (radii 0.8 and 1.5)
HandContact(st, h, id) ==
    Dist2(st.bodies[id].pos, st.handBody[h])
        <= (handColliderSize + colliderSize) * (handColliderSize + colliderSize)

\* a ball collider met a goalpost or the crossbar in the step
PostContact(st, id) == id \in st.blocked

\* two ball colliders overlap
BallContact(st, i, j) ==
    Dist2(st.bodies[i].pos, st.bodies[j].pos)
        <= (2 * colliderSize) * (2 * colliderSize)

\* the collision events the engine may report after the step (which collider
\* of a pair comes first is the engine's choice: the left hand is reported
\* first in its pairs, the right hand second)
PossibleEvents(st) ==
    {[c1 |-> leftHandCollider, c2 |-> BallCollider(id)] :
        id \in {i \in BodyIds(st) : HandContact(st, "left", i)}}
    \cup
    {[c1 |-> BallCollider(id), c2 |-> rightHandCollider] :
        id \in {i \in BodyIds(st) : HandContact(st, "right", i)}}
    \cup
    {[c1 |-> GoalCollider, c2 |-> BallCollider(id)] :
        id \in {i \in BodyIds(st) : PostContact(st, i)}}
    \cup
    {[c1 |-> BallCollider(ij[1]), c2 |-> BallCollider(ij[2])] :
        ij \in {p \in BodyIds(st) \X BodyIds(st) :
                    p[1] < p[2] /\ BallContact(st, p[1], p[2])}}

EventSeqs(S) == UNION {[1..n -> S] : n \in 0..MaxEvents}

\* balls that touch something solid and may be pushed by the solver
Touching(st) ==
    {id \in BodyIds(st) :
        \/ \E h \in Hands : HandContact(st, h, id)
        \/ PostContact(st, id)
        \/ \E j \in BodyIds(st) : j # id /\ BallContact(st, id, j)}

\* the solver's response to a solid contact of ball id (0: none this frame)
Bounce(st, id, bv) ==
    IF id = 0
    THEN st
    ELSE [st EXCEPT !.bodies[id].vel = bv, !.bodies[id].ang = Spin]

\* what the balls have met in the step
Met(st) ==
    {<<id, "hand">> : id \in {i \in BodyIds(st) :
                                \E h \in Hands : HandContact(st, h, i)}}
    \cup {<<id, "post">> : id \in {i \in BodyIds(st) : PostContact(st, i)}}
    \cup {<<id, "ball">> : id \in {i \in BodyIds(st) :
                \E j \in BodyIds(st) : j # i /\ BallContact(st, i, j)}}
    \cup {<<id, "ground">> : id \in {i \in BodyIds(st) :
                st.bodies[i].pos.y < GOAL_BOUNDS.minY}}

IsHandBall(e) ==
    \/ e.c1.kind = "hand" /\ e.c2.kind = "ball"
    \/ e.c1.kind = "ball" /\ e.c2.kind = "hand"

RECURSIVE CountHandBall(_)
CountHandBall(evs) ==
    IF evs = <<>> THEN 0
    ELSE (IF IsHandBall(Head(evs)) THEN 1 ELSE 0) + CountHandBall(Tail(evs))

\* rapierWorld.step() x 8, with what it leaves in the event queue
WorldStep(st, evs) ==
    [st EXCEPT
        !.eventQueue = st.eventQueue \o evs,
        !.contacts = st.contacts + CountHandBall(evs),
        !.touches = st.touches \cup Met(st)]

(* ------------------------- handleHandCollision ------------------------- *)

\* the impulse (x, y) component for an offset d between ball and hand:
\* (d / 10) * 0.5 * impulseMagnitude
DeflectionImpulse(d) == Quot(d * impulseMagnitude, 20)

HandleNoReset(st, id, handPos) ==
    LET ballPos == st.bodies[id].pos
        imp == Vec(ImpulseToVel(DeflectionImpulse(ballPos.x - handPos.x)),
                   ImpulseToVel(DeflectionImpulse(ballPos.y - handPos.y)),
                   ImpulseToVel(impulseMagnitude))
    IN  [st EXCEPT
            !.savesCount = st.savesCount + 1,
            !.display = ShowSaves(st, st.savesCount + 1),
            !.bodies[id].vel = Add(st.bodies[id].vel, imp)]

HandleTowardGoal(st, id, handPos) ==
    LET ballPos == st.bodies[id].pos
        imp == Vec(ImpulseToVel(DeflectionImpulse(ballPos.x - handPos.x)),
                   ImpulseToVel(DeflectionImpulse(ballPos.y - handPos.y)),
                   ImpulseToVel(-impulseMagnitude))
    IN  [st EXCEPT
            !.savesCount = st.savesCount + 1,
            !.display = ShowSaves(st, st.savesCount + 1),
            !.bodies[id].vel = Add(Zero, imp),
            !.bodies[id].ang = Zero]

HandleNeedsSink(st, id, handPos) ==
    LET ballPos == st.bodies[id].pos
        imp == Vec(ImpulseToVel(DeflectionImpulse(ballPos.x - handPos.x)),
                   ImpulseToVel(DeflectionImpulse(ballPos.y - handPos.y)),
                   ImpulseToVel(impulseMagnitude))
    IN  [st EXCEPT
            !.savesCount = IF "saves" \in st.sinks THEN st.savesCount + 1
                           ELSE st.savesCount,
            !.display = ShowSaves(st, st.savesCount + 1),
            !.bodies[id].vel = Add(Zero, imp),
            !.bodies[id].ang = Zero]

handleHandCollision(st, id, handPos) ==
    LET ballPos == st.bodies[id].pos
        imp == Vec(ImpulseToVel(DeflectionImpulse(ballPos.x - handPos.x)),
                   ImpulseToVel(DeflectionImpulse(ballPos.y - handPos.y)),
                   ImpulseToVel(impulseMagnitude))
    IN  [st EXCEPT
            !.savesCount = st.savesCount + 1,
            !.display = ShowSaves(st, st.savesCount + 1),
            !.bodies[id].vel = Add(Zero, imp),
            !.bodies[id].ang = Zero]

(* ------------------------------- animate ------------------------------- *)

\* lines 488-511: the hand bodies take the meshes' positions
SyncHandsLeftOnly(st, hm) == [st EXCEPT !.handBody.left = hm.left]

SyncHands(st, hm) == [st EXCEPT !.handBody = hm]

\* this.balls.find((b) => b.collider === ballCollider): 0 when there is none
FindBall(st, c) ==
    IF c.kind = "ball" /\ \E i \in 1..Len(st.balls) : st.balls[i].collider = c.id
    THEN c.id
    ELSE 0

\* one iteration of the while loop over the event queue
\* the handler without the test for a hand: the first collider of a pair
\* that names no hand is taken for the left hand
HandleEventAnyPair(st, e, hm) ==
    LET hc == IF e.c1 = rightHandCollider \/ e.c2 = rightHandCollider
              THEN rightHandCollider ELSE leftHandCollider
        ballCollider == IF e.c1 = hc \/ e.c1.kind # "ball" THEN e.c2 ELSE e.c1
        ball == FindBall(st, ballCollider)
    IN  IF ball = 0
        THEN st
        ELSE handleHandCollision(st, ball, hm[HandOf(hc)])

HandleEvent(st, e, hm) ==
    LET handCollider ==
            IF e.c1 = leftHandCollider \/ e.c2 = leftHandCollider
            THEN {leftHandCollider}
            ELSE IF e.c1 = rightHandCollider \/ e.c2 = rightHandCollider
            THEN {rightHandCollider}
            ELSE {}
    IN  IF handCollider = {}
        THEN st
        ELSE LET hc == CHOOSE c \in handCollider : TRUE
                 ballCollider == IF e.c1 = hc THEN e.c2 ELSE e.c1
                 ball == FindBall(st, ballCollider)
             IN  IF ball = 0
                 THEN st
                 ELSE handleHandCollision(st, ball, hm[HandOf(hc)])

RECURSIVE Drain(_, _, _)
Drain(st, evs, hm) ==
    IF evs = <<>>
    THEN st
    ELSE Drain(HandleEvent(st, Head(evs), hm), Tail(evs), hm)

\* if (eventQueue.length > 0) in the place of the while loop
DrainQueueOneEvent(st, hm) ==
    IF st.eventQueue = <<>>
    THEN st
    ELSE [HandleEvent(st, Head(st.eventQueue), hm) EXCEPT
            !.eventQueue = Tail(st.eventQueue)]

\* while (eventQueue?.length > 0) { const event = eventQueue.shift(); ... }
DrainQueue(st, hm) ==
    [Drain(st, st.eventQueue, hm) EXCEPT !.eventQueue = <<>>]

checkForGoalMinYTwice(p) ==
    /\ p.x >= GOAL_BOUNDS.minX
    /\ p.x <= GOAL_BOUNDS.maxX
    /\ p.y >= GOAL_BOUNDS.minY
    /\ p.y <= GOAL_BOUNDS.minY
    /\ Abs(p.z - GOAL_BOUNDS.z) < GoalTolerance

checkForGoalMaxXTwice(p) ==
    /\ p.x >= GOAL_BOUNDS.maxX
    /\ p.x <= GOAL_BOUNDS.maxX
    /\ p.y >= GOAL_BOUNDS.minY
    /\ p.y <= GOAL_BOUNDS.maxY
    /\ Abs(p.z - GOAL_BOUNDS.z) < GoalTolerance

checkForGoal(p) ==
    /\ p.x >= GOAL_BOUNDS.minX
    /\ p.x <= GOAL_BOUNDS.maxX
    /\ p.y >= GOAL_BOUNDS.minY
    /\ p.y <= GOAL_BOUNDS.maxY
    /\ Abs(p.z - GOAL_BOUNDS.z) < GoalTolerance

RemoveMeshOnly(st, id) == st

\* this.rapierWorld.removeRigidBody(ball.body): the body and its collider
RemoveBody(st, id) ==
    [st EXCEPT
        !.bodies = [i \in DOMAIN st.bodies \ {id} |-> st.bodies[i]],
        !.colliders = st.colliders \ {id}]

FilterBallRearCounts(st, ball) ==
    LET position == st.bodies[ball.body].pos
        synced == [ball EXCEPT !.meshPos = position]
    IN  IF checkForGoal(position) \/ position.z < RearZ
        THEN [RemoveBody(st, ball.body) EXCEPT
                !.goalsCount = st.goalsCount + 1,
                !.display = ShowGoals(st, st.goalsCount + 1),
                !.scene = st.scene \ {ball.mesh},
                !.removedGoal = IF checkForGoal(position)
                                THEN st.removedGoal \cup {ball.body}
                                ELSE st.removedGoal,
                !.removedRear = IF checkForGoal(position)
                                THEN st.removedRear
                                ELSE st.removedRear \cup {ball.body}]
        ELSE [st EXCEPT !.balls = Append(st.balls, synced)]

FilterBallSetsOne(st, ball) ==
    LET position == st.bodies[ball.body].pos
        synced == [ball EXCEPT !.meshPos = position]
    IN  IF checkForGoal(position)
        THEN [RemoveBody(st, ball.body) EXCEPT
                !.goalsCount = 1,
                !.display = ShowGoals(st, 1),
                !.scene = st.scene \ {ball.mesh},
                !.removedGoal = st.removedGoal \cup {ball.body}]
        ELSE IF position.z < RearZ
        THEN [RemoveBody(st, ball.body) EXCEPT
                !.scene = st.scene \ {ball.mesh},
                !.removedRear = st.removedRear \cup {ball.body}]
        ELSE [st EXCEPT !.balls = Append(st.balls, synced)]

\* the goal branch without the removal: return true
FilterBallKeepsScored(st, ball) ==
    LET position == st.bodies[ball.body].pos
        synced == [ball EXCEPT !.meshPos = position]
    IN  IF checkForGoal(position)
        THEN [st EXCEPT
                !.goalsCount = st.goalsCount + 1,
                !.display = ShowGoals(st, st.goalsCount + 1),
                !.balls = Append(st.balls, synced)]
        ELSE IF position.z < RearZ
        THEN [RemoveBody(st, ball.body) EXCEPT
                !.scene = st.scene \ {ball.mesh},
                !.removedRear = st.removedRear \cup {ball.body}]
        ELSE [st EXCEPT !.balls = Append(st.balls, synced)]

\* the filter callback for one ball, the kept balls so far in st.balls
FilterBall(st, ball) ==
    LET position == st.bodies[ball.body].pos
        synced == [ball EXCEPT !.meshPos = position]
    IN  IF checkForGoal(position)
        THEN [RemoveBody(st, ball.body) EXCEPT
                !.goalsCount = st.goalsCount + 1,
                !.display = ShowGoals(st, st.goalsCount + 1),
                !.scene = st.scene \ {ball.mesh},
                !.removedGoal = st.removedGoal \cup {ball.body}]
        ELSE IF position.z < RearZ
        THEN [RemoveBody(st, ball.body) EXCEPT
                !.scene = st.scene \ {ball.mesh},
                !.removedRear = st.removedRear \cup {ball.body}]
        ELSE [st EXCEPT !.balls = Append(st.balls, synced)]

RECURSIVE FilterFrom(_, _)
FilterFrom(st, rest) ==
    IF rest = <<>>
    THEN st
    ELSE FilterFrom(FilterBall(st, Head(rest)), Tail(rest))

\* this.balls = this.balls.filter(...)
FilterBalls(st) == FilterFrom([st EXCEPT !.balls = <<>>], st.balls)

FrameOfGoalTestFirst(st0, TX, TY) ==
    \E x \in SpawnXs, y \in SpawnYs, tx \in TX, ty \in TY :
        \E s2 \in {Integrate(shootBall(st0, now, x, y, tx, ty))} :
        \E b \in Touching(s2) \cup {0}, bv \in BounceVels :
        \E evs \in EventSeqs(PossibleEvents(s2)) :
        \E s3 \in {WorldStep(Bounce(s2, b, bv), evs)} :
        \E s4 \in {SyncHands(s3, handMesh)} :
        \E s5 \in {FilterBalls(s4)} :
        \E s6 \in {DrainQueue(s5, handMesh)} :
            /\ Commit(s6)
            /\ lastEvents' = evs
            /\ savesAtFrame' = st0.savesCount

\* one call of animate(), the targets of a shot drawn from TX and TY; the
\* stages s2 .. s6 are the state after the shot and the step, after the
\* events were queued, after the hand sync, after the drain, after the filter
\* found: whether both hand colliders are there and parent() gave their bodies
FrameLookupReturns(st0, TX, TY, found) ==
    \E x \in SpawnXs, y \in SpawnYs, tx \in TX, ty \in TY :
        \E s2 \in {Integrate(shootBall(st0, now, x, y, tx, ty))} :
        \E b \in Touching(s2) \cup {0}, bv \in BounceVels :
        \E evs \in EventSeqs(PossibleEvents(s2)) :
        \E s3 \in {WorldStep(Bounce(s2, b, bv), evs)} :
        \E s4 \in {IF found THEN SyncHands(s3, handMesh) ELSE s3} :
        \E s5 \in {IF found THEN DrainQueue(s4, handMesh) ELSE s4} :
        \E s6 \in {IF found THEN FilterBalls(s5) ELSE s5} :
            /\ Commit(s6)
            /\ lastEvents' = evs
            /\ savesAtFrame' = st0.savesCount

FrameLookup(st0, TX, TY, found) ==
    \E x \in SpawnXs, y \in SpawnYs, tx \in TX, ty \in TY :
        \E s2 \in {Integrate(shootBall(st0, now, x, y, tx, ty))} :
        \E b \in Touching(s2) \cup {0}, bv \in BounceVels :
        \E evs \in EventSeqs(PossibleEvents(s2)) :
        \E s3 \in {WorldStep(Bounce(s2, b, bv), evs)} :
        \E s4 \in {IF found THEN SyncHands(s3, handMesh) ELSE s3} :
        \E s5 \in {DrainQueue(s4, handMesh)} :
        \E s6 \in {FilterBalls(s5)} :
            /\ Commit(s6)
            /\ lastEvents' = evs
            /\ savesAtFrame' = st0.savesCount

\* a frame of the game as it is built: createPlayer has made both colliders
\* on bodies of their own before the first frame
FrameOf(st0, TX, TY) == FrameLookup(st0, TX, TY, TRUE)

Frame(st0) == FrameOf(st0, TargetXs, TargetYs)

Animate ==
    /\ game = "animating"
    /\ Frame(Cur)
    /\ UNCHANGED <<sinks, now, game, initError, worldReady, webcam, handMesh,
                   lastPose, uncaught>>

\* a frame in which the lookup of the hand bodies may fail
AnimateLookup ==
    /\ game = "animating"
    /\ \E found \in BOOLEAN : FrameLookup(Cur, TargetXs, TargetYs, found)
    /\ UNCHANGED <<sinks, now, game, initError, worldReady, webcam, handMesh,
                   lastPose, uncaught>>

(* --------------------------- initialisation ---------------------------- *)

InitOutcomes == {"physicsThrows", "poseThrows", "ok"}

initializeGameAnimateFirst(outcome) ==
    /\ game = "loading"
    /\ IF outcome = "physicsThrows"
       THEN /\ game' = "halted"
            /\ initError' = "physics"
            /\ UNCHANGED <<worldReady, webcam, lastShot, nextId, balls, bodies,
                           colliders, scene, handBody, savesCount, goalsCount, display, eventQueue,
                           shots, removedGoal, removedRear, contacts, touches, lastEvents,
                           savesAtFrame>>
       ELSE /\ game' = "animating"
            /\ initError' = (IF outcome = "poseThrows" THEN "pose" ELSE "none")
            /\ worldReady' = TRUE
            /\ webcam' = (IF outcome = "poseThrows" THEN webcam ELSE "pending")
            /\ Frame([Cur EXCEPT !.ready = TRUE])
    /\ UNCHANGED <<sinks, now, handMesh, lastPose, uncaught>>

\* the continuation of initializeGame after await RAPIER.init() settles
initializeGame(outcome) ==
    /\ game = "loading"
    /\ IF outcome = "physicsThrows"
       THEN /\ game' = "halted"
            /\ initError' = "physics"
            /\ UNCHANGED <<worldReady, webcam, lastShot, nextId, balls, bodies,
                           colliders, scene, handBody, savesCount, goalsCount, display, eventQueue,
                           shots, removedGoal, removedRear, contacts, touches, lastEvents,
                           savesAtFrame>>
       ELSE IF outcome = "poseThrows"
       THEN /\ game' = "halted"
            /\ initError' = "pose"
            /\ worldReady' = TRUE
            /\ UNCHANGED <<webcam, lastShot, nextId, balls, bodies,
                           colliders, scene, handBody, savesCount, goalsCount, display, eventQueue,
                           shots, removedGoal, removedRear, contacts, touches, lastEvents,
                           savesAtFrame>>
       ELSE /\ game' = "animating"
            /\ initError' = "none"
            /\ worldReady' = TRUE
            /\ webcam' = "pending"
            /\ Frame([Cur EXCEPT !.ready = TRUE])
    /\ UNCHANGED <<sinks, now, handMesh, lastPose, uncaught>>

InitializeGame == \E outcome \in InitOutcomes : initializeGame(outcome)

\* navigator.mediaDevices.getUserMedia settles
WebcamGranted ==
    /\ webcam = "pending"
    /\ webcam' = "granted"
    /\ UNCHANGED <<sinks, now, game, initError, worldReady, lastShot, nextId, balls,
                   bodies, colliders, scene, handMesh, handBody, savesCount,
                   goalsCount, display, eventQueue, shots, removedGoal, removedRear, contacts, touches,
                   lastEvents, savesAtFrame, lastPose, uncaught>>

WebcamDenied ==
    /\ webcam = "pending"
    /\ webcam' = "denied"
    /\ UNCHANGED <<sinks, now, game, initError, worldReady, lastShot, nextId, balls,
                   bodies, colliders, scene, handMesh, handBody, savesCount,
                   goalsCount, display, eventQueue, shots, removedGoal, removedRear, contacts, touches,
                   lastEvents, savesAtFrame, lastPose, uncaught>>

(* ------------------------------ Twitch chat ---------------------------- *)

\* the lower-case form of a character (of the letters that messages use)
LowerChar(c) ==
    CASE c = "S" -> "s"
      [] c = "H" -> "h"
      [] c = "O" -> "o"
      [] c = "T" -> "t"
      [] OTHER -> c

SameCase(m) == m

\* message.toLowerCase()
toLowerCase(m) == [i \in 1..Len(m) |-> LowerChar(m[i])]

\* the literal "!shoot"
ShootCommand == <<"!", "s", "h", "o", "o", "t">>

\* the "message" handler registered by initializeTwitchChat
Chat(m) ==
    /\ IF toLowerCase(m) = ShootCommand
       THEN \E x \in SpawnXs, y \in SpawnYs, tx \in TargetXs, ty \in TargetYs :
                LET s1 == shootBall(Cur, now, x, y, tx, ty)
                IN  /\ Commit(s1)
                    /\ uncaught' = (IF s1.threw THEN uncaught \cup {"chat"}
                                    ELSE uncaught)
       ELSE UNCHANGED <<lastShot, nextId, balls, bodies, colliders, scene,
                        handBody, savesCount, goalsCount, display, eventQueue, shots, removedGoal,
                        removedRear, contacts, touches, uncaught>>
    /\ UNCHANGED <<sinks, now, game, initError, worldReady, webcam, handMesh,
                   lastEvents, savesAtFrame, lastPose>>

ChatMessage == \E m \in Messages : Chat(m)

ChatMessageWide == \E m \in MessagesWide : Chat(m)

(* ---------------------------- pose tracking ---------------------------- *)

\* a landmark array of length len: a at index 15, b at index 16, c elsewhere
\* (JavaScript index i is position i + 1 of the sequence)
MakeLandmarks(len, a, b, c) ==
    [i \in 1..len |-> IF i = 16 THEN a ELSE IF i = 17 THEN b ELSE c]

PoseResults ==
    {[present |-> FALSE, arr |-> <<>>]}
    \cup {[present |-> TRUE, arr |-> MakeLandmarks(len, l[1], l[2], l[3])] :
            len \in PoseLens, l \in PoseLandmarks}

updateNoLengthCheck(hm, landmarks) ==
    IF ~landmarks.present \/ Len(landmarks.arr) < 17
    THEN hm
    ELSE LET leftHand == landmarks.arr[17]
             rightHand == landmarks.arr[16]
         IN  [left |-> Vec(leftHand.x * 20 - 100, (10 - leftHand.y) * 7, 20),
              right |-> Vec(rightHand.x * 20 - 100, (10 - rightHand.y) * 7, 20)]

updateSwapped(hm, landmarks) ==
    IF ~landmarks.present \/ Len(landmarks.arr) < MinLandmarks
    THEN hm
    ELSE LET leftHand == landmarks.arr[16]
             rightHand == landmarks.arr[17]
         IN  [left |-> Vec(leftHand.x * 20 - 100, (10 - leftHand.y) * 7, 20),
              right |-> Vec(rightHand.x * 20 - 100, (10 - rightHand.y) * 7, 20)]

\* the new leftHandMesh.position and rightHandMesh.position
updatePlayerPosition(hm, landmarks) ==
    IF ~landmarks.present \/ Len(landmarks.arr) < MinLandmarks
    THEN hm
    ELSE LET leftHand == landmarks.arr[17]
             rightHand == landmarks.arr[16]
         IN  [left |-> Vec(leftHand.x * 20 - 100, (10 - leftHand.y) * 7, 20),
              right |-> Vec(rightHand.x * 20 - 100, (10 - rightHand.y) * 7, 20)]

\* the callback given to pose.onResults
onResultsShoots(results) ==
    /\ game = "animating"
    /\ webcam = "granted"
    /\ handMesh' = (IF results.present
                    THEN updatePlayerPosition(handMesh, results)
                    ELSE handMesh)
    /\ lastPose' = results
    /\ \E x \in SpawnXs, y \in SpawnYs, tx \in TargetXs, ty \in TargetYs :
            Commit(shootBall(Cur, now, x, y, tx, ty))
    /\ UNCHANGED <<sinks, now, game, initError, worldReady, webcam,
                   lastEvents, savesAtFrame, uncaught>>

onResults(results) ==
    /\ game = "animating"
    /\ webcam = "granted"
    /\ handMesh' = (IF results.present
                    THEN updatePlayerPosition(handMesh, results)
                    ELSE handMesh)
    /\ lastPose' = results
    /\ UNCHANGED <<sinks, now, game, initError, worldReady, webcam, lastShot, nextId,
                   balls, bodies, colliders, scene, handBody, savesCount,
                   goalsCount, display, eventQueue, shots, removedGoal, removedRear, contacts, touches,
                   lastEvents, savesAtFrame, uncaught>>

PoseResult == \E results \in PoseResults : onResults(results)

PoseResultsWide ==
    {[present |-> FALSE, arr |-> <<>>]}
    \cup {[present |-> TRUE, arr |-> MakeLandmarks(len, a, b, c)] :
            len \in PoseLensWide, a \in LmGrid, b \in LmGrid, c \in LmGrid}

PoseResultWide == \E results \in PoseResultsWide : onResults(results)

(* -------------------------------- time --------------------------------- *)

Tick ==
    /\ now + TickMs <= StartTime + MaxTicks * TickMs
    /\ now' = now + TickMs
    /\ UNCHANGED <<sinks, game, initError, worldReady, webcam, lastShot, nextId,
                   balls, bodies, colliders, scene, handMesh, handBody,
                   savesCount, goalsCount, display, eventQueue, shots, removedGoal, removedRear,
                   contacts, touches, lastEvents, savesAtFrame, lastPose, uncaught>>

Next ==
    \/ InitializeGame
    \/ Animate
    \/ ChatMessage
    \/ PoseResult
    \/ WebcamGranted
    \/ WebcamDenied
    \/ Tick

Spec == Init /\ [][Next]_vars

\* shots at every part of the goal plane: initialisation, frames, time
AnimateWide ==
    /\ game = "animating"
    /\ FrameOf(Cur, TargetXsWide, TargetYsWide)
    /\ UNCHANGED <<sinks, now, game, initError, worldReady, webcam, handMesh,
                   lastPose, uncaught>>

NextShot ==
    \/ InitializeGame
    \/ AnimateWide
    \/ Tick

SpecShot == Init /\ [][NextShot]_vars

\* a ball that the next frame brings to a hand: the left hand at h, the ball
\* one frame short of h + d, flying as shot or spinning from an earlier contact
InitSave ==
    \E h \in SaveHands, d \in SaveOffsets, w \in {Zero, Spin} :
        LET v == ShotVel(10, 20, 10, 20)
            start == Vec(h.x + d.x - v.x, h.y + d.y - v.y + GravityDrop,
                         h.z + d.z - v.z)
        IN  /\ now = StartTime
            /\ game = "animating"
            /\ initError = "none"
            /\ worldReady = TRUE
            /\ webcam = "granted"
            /\ lastShot = StartTime
            /\ nextId = 2
            /\ balls = <<[mesh |-> 1, body |-> 1, collider |-> 1,
                          meshPos |-> start]>>
            /\ bodies = (1 :> [pos |-> start, vel |-> v, ang |-> w])
            /\ colliders = {1}
            /\ scene = {1}
            /\ handMesh = [left |-> h, right |-> Vec(100, 70, 20)]
            /\ handBody = [left |-> h, right |-> Vec(100, 70, 20)]
            /\ savesCount = 0
            /\ goalsCount = 0
            /\ sinks = AllSinks
            /\ display = [saves |-> NoText, goals |-> NoText]
            /\ eventQueue = <<>>
            /\ shots = <<StartTime>>
            /\ removedGoal = {}
            /\ removedRear = {}
            /\ contacts = 0
            /\ touches = {}
            /\ lastEvents = <<>>
            /\ savesAtFrame = 0
            /\ lastPose = [present |-> FALSE, arr |-> <<>>]
            /\ uncaught = {}

NextSave ==
    \/ Animate
    \/ Tick

SpecSave == InitSave /\ [][NextSave]_vars

\* every kind of chat message: initialisation, chat messages, frames, time
NextChat ==
    \/ InitializeGame
    \/ ChatMessageWide
    \/ Animate
    \/ Tick

SpecChat == Init /\ [][NextChat]_vars

\* pages with display elements missing: initialisation, frames, time
NextSinks ==
    \/ InitializeGame
    \/ Animate
    \/ Tick

SpecSinks == InitSinks /\ [][NextSinks]_vars

\* a ball one frame short of a hand, pose results, and frames whose lookup
\* of the hand bodies may fail, the clock standing still
NextLookup ==
    \/ AnimateLookup
    \/ PoseResult

SpecLookup == InitSave /\ [][NextLookup]_vars

\* pose results and frames in any order, the clock standing still
NextMailbox ==
    \/ InitializeGame
    \/ WebcamGranted
    \/ WebcamDenied
    \/ PoseResult
    \/ Animate

SpecMailbox == Init /\ [][NextMailbox]_vars

\* the landmark mapper on its own: initialisation, the webcam, pose results
NextPose ==
    \/ InitializeGame
    \/ WebcamGranted
    \/ PoseResultWide
    \/ Tick

SpecPose == Init /\ [][NextPose]_vars

(* ------------------------------- claims -------------------------------- *)

LiveIds == {balls[i].body : i \in 1..Len(balls)}

\* C1 (as claimed): a shootBall call made when at least SHOT_INTERVAL has
\* passed since lastShot adds exactly one ball to the live collection, so that
\* of two calls less than SHOT_INTERVAL apart the first adds the one ball.
\* Stated for the calls of the chat handler.
C1_DueCallAddsBall ==
    [][\A m \in Messages :
        (Chat(m) /\ toLowerCase(m) = ShootCommand /\ now - lastShot >= 2000)
            => Len(balls') = Len(balls) + 1]_vars

\* C2: every live ball has its body, its collider and its mesh, each once, and
\* the world and the scene hold no ball body, collider or mesh of a ball that
\* is not live.
C2_NoOrphans ==
    /\ \A i, j \in 1..Len(balls) : i # j => balls[i].body # balls[j].body
    /\ \A i \in 1..Len(balls) :
        /\ balls[i].collider = balls[i].body
        /\ balls[i].mesh = balls[i].body
    /\ DOMAIN bodies = LiveIds
    /\ colliders = LiveIds
    /\ scene = LiveIds

C2_Witness ==
    /\ removedGoal # {}
    /\ removedRear # {}

\* C3: a ball whose position is inside the goal bounds and within 0.5 of the
\* goal plane does not outlive the frame: no live ball is there between
\* frames, every ball removed by the goal test was counted once, and it is
\* neither live nor in the physics world any more.
C3_GoalScoring ==
    /\ \A id \in LiveIds :
        LET p == bodies[id].pos
        IN  ~(/\ -70 <= p.x /\ p.x <= 70
              /\ 0 <= p.y /\ p.y <= 70
              /\ Abs(p.z - 0) < 5)
    /\ goalsCount = Cardinality(removedGoal)
    /\ removedGoal \cap LiveIds = {}
    /\ removedGoal \cap DOMAIN bodies = {}

C3_Witness ==
    /\ goalsCount = 1
    /\ removedGoal = {1}

\* C4: a ball behind the rear threshold (z < -10) does not outlive the frame;
\* its body and mesh are gone, and the removal touched neither counter: the
\* goals are the balls removed by the goal test and the saves are the
\* hand/ball contact events.
C4_RearRemoval ==
    /\ \A id \in LiveIds : bodies[id].pos.z >= -100
    /\ removedRear \cap LiveIds = {}
    /\ removedRear \cap DOMAIN bodies = {}
    /\ removedRear \cap scene = {}
    /\ removedRear \cap removedGoal = {}
    /\ goalsCount = Cardinality(removedGoal)
    /\ savesCount = contacts

C4_Witness ==
    /\ removedRear # {}
    /\ goalsCount = 0

\* the hand/ball events of the last frame that name ball id
HandEventsOf(id) ==
    {i \in 1..Len(lastEvents) :
        \/ lastEvents[i].c1.kind = "hand" /\ lastEvents[i].c2 = BallCollider(id)
        \/ lastEvents[i].c2.kind = "hand" /\ lastEvents[i].c1 = BallCollider(id)}

LastHandOf(id) ==
    LET i == CHOOSE k \in HandEventsOf(id) : \A j \in HandEventsOf(id) : j <= k
        e == lastEvents[i]
    IN  IF e.c1 = leftHandCollider \/ e.c2 = leftHandCollider
        THEN "left" ELSE "right"

\* C5: every hand/ball contact event counts one save, and a ball that was
\* resolved in the last frame carries exactly the deflection impulse of its
\* last contact (its earlier linear velocity is gone) and no angular velocity.
C5_ContactResolution ==
    /\ savesCount = contacts
    /\ \A id \in LiveIds :
        HandEventsOf(id) # {} =>
            LET p == bodies[id].pos
                h == handBody[LastHandOf(id)]
            IN  /\ bodies[id].vel =
                        Vec(ImpulseToVel(DeflectionImpulse(p.x - h.x)),
                            ImpulseToVel(DeflectionImpulse(p.y - h.y)),
                            ImpulseToVel(20))
                /\ bodies[id].ang = Zero

C5_Witness ==
    /\ savesCount = 1
    /\ \E id \in LiveIds : HandEventsOf(id) # {} /\ bodies[id].vel.x # 0

\* C6 (as claimed): within one frame savesCount rises at most once per ball,
\* however many contact events name that ball.
C6_OneSavePerBall ==
    savesCount - savesAtFrame
        <= Cardinality({id \in 1..nextId : HandEventsOf(id) # {}})

\* C7: a pose result without landmarks, or with fewer than 33 of them, leaves
\* both hand positions as they were and lets no exception escape.
C7_InvalidLandmarks ==
    [][(onResults(lastPose') /\ (~lastPose'.present \/ Len(lastPose'.arr) < 33))
            => (handMesh' = handMesh /\ uncaught' = uncaught)]_vars

C7_Witness ==
    /\ lastPose.present
    /\ Len(lastPose.arr) = 32
    /\ handMesh # DefaultHands

\* C8: a pose result with at least 33 landmarks puts the left hand at the
\* affine image of landmark 16 and the right hand at that of landmark 15:
\* x' = 20 x - 10, y' = 7 (1 - y), z' = 2.
C8_LandmarkMapping ==
    [][(onResults(lastPose') /\ lastPose'.present /\ Len(lastPose'.arr) >= 33)
            => LET l15 == lastPose'.arr[16]
                   l16 == lastPose'.arr[17]
               IN  handMesh' =
                    [left |-> Vec(l16.x * 20 - 100, (10 - l16.y) * 7, 20),
                     right |-> Vec(l15.x * 20 - 100, (10 - l15.y) * 7, 20)]]_vars

C8_Witness ==
    /\ lastPose.present
    /\ Len(lastPose.arr) = 34
    /\ handMesh = [left |-> Vec(100, 70, 20), right |-> Vec(-100, 0, 20)]

\* C9 (as claimed): once physics or pose initialisation has thrown, or the
\* webcam permission was denied, no animate frame runs.
C9_FailureHalts ==
    [][(initError # "none" \/ webcam = "denied") => ~Animate]_vars

\* C9 (amended): once physics or pose initialisation has thrown the game is
\* halted and no animate frame runs; a denied webcam permission leaves the
\* frame loop running.
C9_InitThrowHalts ==
    [][/\ initError # "none" => ~Animate
       /\ initError' # "none" => game' = "halted"
       /\ webcam' = "denied" => game' = "animating"]_vars

C9_Witness ==
    /\ initError = "pose"
    /\ game = "halted"
    /\ now > StartTime

\* C10 (as claimed): lastShot is the time of the last ball actually added to
\* the live collection (or still 0).
C10_LastShotIsLastSpawn ==
    \/ lastShot = 0
    \/ Len(shots) > 0 /\ shots[Len(shots)] = lastShot

\* C11 (as claimed): every ball added to the live collection is eventually
\* destroyed, by the goal test or by the rear threshold.  Both tests need the
\* ball at z < 0.5, so the claim needs every live ball to be able to come
\* back there: no live ball is past the spawn plane, out of reach of the
\* hands, the goalposts and a newly spawned ball, and moving further away
\* (nothing acts on a free ball's z velocity).
C11_NoBallFliesAway ==
    \A id \in LiveIds :
        ~(/\ bodies[id].pos.z > SpawnZ + 2 * colliderSize
          /\ bodies[id].vel.z > 0)

\* the balls created so far
Spawned == 1..(nextId - 1)

\* a ball on its way to the goal plane, or counted: it is counted as a goal, or
\* it is live in front of the tolerance window and moving toward it (each
\* frame then brings it nearer, so that it is counted after enough frames)
OnItsWay(id) ==
    \/ id \in removedGoal
    \/ /\ id \in LiveIds
       /\ bodies[id].pos.z >= GOAL_BOUNDS.z + GoalTolerance
       /\ bodies[id].vel.z < 0

\* C12 (as claimed): a ball shot at a target inside the goal bounds that has
\* met no hand is on its way or counted, and every counted ball counts once.
C12_HandFreeBallScores ==
    /\ goalsCount = Cardinality(removedGoal)
    /\ \A id \in Spawned : <<id, "hand">> \notin touches => OnItsWay(id)

\* C12 (amended): a ball that has met no hand, no goalpost or crossbar and no
\* other ball, and that gravity has not taken below the ground line, is on its
\* way or counted, is never removed by the rear threshold, and every counted
\* ball counts once.
C12_FreeBallScores ==
    /\ goalsCount = Cardinality(removedGoal)
    /\ \A id \in Spawned :
        (\A what \in {"hand", "post", "ball", "ground"} :
            <<id, what>> \notin touches)
            => (OnItsWay(id) /\ id \notin removedRear)

C12_Witness ==
    /\ 2 \in removedGoal
    /\ \A what \in {"hand", "post", "ball", "ground"} : <<2, what>> \notin touches

C14_CountersMonotonic ==
    [][/\ savesCount' >= savesCount
       /\ goalsCount' >= goalsCount
       /\ savesCount' - savesCount = contacts' - contacts
       /\ goalsCount' - goalsCount = Cardinality(removedGoal' \ removedGoal)]_vars

C14_Witness ==
    /\ goalsCount = 2
    /\ savesCount >= 1

\* a text that is "!shoot" up to the case of its letters
IsShootText(m) ==
    /\ Len(m) = 6
    /\ m[1] = "!"
    /\ m[2] \in {"s", "S"}
    /\ m[3] \in {"h", "H"}
    /\ m[4] \in {"o", "O"}
    /\ m[5] \in {"o", "O"}
    /\ m[6] \in {"t", "T"}

\* C15: in every state, a chat message that is "!shoot" up to case runs the
\* shot generator (when a shot is due, handling it sets lastShot to the time
\* of the message), and handling any other message can change nothing.
C15_ChatTrigger ==
    \A m \in MessagesWide :
        IF IsShootText(m)
        THEN now - lastShot >= 2000 => ENABLED (Chat(m) /\ lastShot' = now)
        ELSE ~ENABLED <<Chat(m)>>_vars

\* a ball still at its spawn place (a frame moves the ball it shoots): a chat
\* message has shot it
C15_Witness ==
    \E id \in LiveIds : bodies[id].pos.z = SpawnZ /\ lastShot = now

\* C16: whether or not the page has the display elements, every hand/ball
\* event handled counts a save and every ball the goal test removes counts a
\* goal, and no frame lets an exception escape; an element that is there shows
\* the counter after the first event, one that is missing shows nothing.
C16_SinksBestEffort ==
    /\ savesCount = contacts
    /\ goalsCount = Cardinality(removedGoal)
    /\ uncaught = {}
    /\ display.saves = (IF "saves" \in sinks /\ savesCount > 0
                        THEN <<"Saves: ", savesCount>> ELSE NoText)
    /\ display.goals = (IF "goals" \in sinks /\ goalsCount > 0
                        THEN <<"Goals: ", goalsCount>> ELSE NoText)

C16_Witness ==
    /\ sinks = {"goals"}
    /\ savesCount = 2
    /\ goalsCount = 2
    /\ display.goals = <<"Goals: ", 2>>

\* C17: in every frame the physics step works with hand bodies that stand at
\* the hands' current mapped positions (the positions of the hand meshes).
C17_StepUsesCurrentHands ==
    [][<<Animate>>_vars => handBody = handMesh]_vars

Owned == <<balls, bodies, colliders, scene, savesCount, goalsCount>>

\* C19 (as claimed): a step of the chat message handler or of the pose result
\* handler leaves the live balls, the ball bodies and both counters alone.
C19_OnlyFrameMutates ==
    [][(ChatMessage \/ PoseResult) => UNCHANGED Owned]_vars

\* C19: in a step of any handler other than animate() (chat message, pose
\* result, webcam permission, the clock) no counter changes and no ball is removed; the pose
\* result handler changes no ball either, and the one other change is a shot
\* that is due when a chat command arrives: one ball added at the end of the
\* collection, the others as they were.
C19_FrameOwnsAllButShots ==
    [][(ChatMessage \/ PoseResult \/ WebcamGranted \/ WebcamDenied \/ Tick) =>
        /\ UNCHANGED <<savesCount, goalsCount, display, removedGoal,
                       removedRear>>
        /\ \/ UNCHANGED <<balls, bodies, colliders, scene>>
           \/ /\ ChatMessage
              /\ now - lastShot >= SHOT_INTERVAL
              /\ lastShot' = now
              /\ Len(balls') = Len(balls) + 1
              /\ SubSeq(balls', 1, Len(balls)) = balls
              /\ DOMAIN bodies' = DOMAIN bodies \cup {nextId}
              /\ \A id \in DOMAIN bodies : bodies'[id] = bodies[id]]_vars

\* after frames counted a save and a goal and a pose result moved the hands,
\* a ball that the chat handler has just put at the spawn plane
C19_Witness ==
    /\ savesCount >= 1
    /\ goalsCount >= 1
    /\ handMesh # DefaultHands
    /\ Len(shots) = 2
    /\ Len(balls) >= 1
    /\ LET b == balls[Len(balls)]
       IN  /\ bodies[b.body].pos.z = SpawnZ
           /\ b.body = nextId - 1
    /\ lastEvents # <<>>

\* a result that moves the hands: landmarks present, 33 of them or more
ValidPose(r) == r.present /\ Len(r.arr) >= 33

\* where such a result puts the hands: landmark 16 the left hand, landmark 15
\* the right hand (sequence positions 17 and 16)
HandsOf(arr) ==
    [left  |-> Vec(arr[17].x * 20 - 100, (10 - arr[17].y) * 7, 20),
     right |-> Vec(arr[16].x * 20 - 100, (10 - arr[16].y) * 7, 20)]

AnimateNoHands ==
    /\ game = "animating"
    /\ FrameLookup(Cur, TargetXs, TargetYs, FALSE)
    /\ UNCHANGED <<sinks, now, game, initError, worldReady, webcam, handMesh,
                   lastPose, uncaught>>

\* the velocity handleHandCollision gives ball id for a hand at h
DeflectedFrom(id, h) ==
    Vec(ImpulseToVel(DeflectionImpulse(bodies[id].pos.x - h.x)),
        ImpulseToVel(DeflectionImpulse(bodies[id].pos.y - h.y)),
        ImpulseToVel(20))

\* C21: a frame whose lookup of the hand bodies fails leaves the hand bodies
\* where they were and does the rest of a frame: each hand/ball event of its
\* step counts a save, the goal test counts the balls it removes, the meshes
\* show the body positions, and the game goes on animating; a frame whose
\* lookup succeeds, the next one included, puts the hand bodies at the hand
\* positions.
C21_LookupFailureSkips ==
    [][/\ AnimateNoHands =>
            /\ handBody' = handBody
            /\ savesCount' - savesCount = CountHandBall(lastEvents')
            /\ goalsCount' - goalsCount
                    = Cardinality(removedGoal' \ removedGoal)
            /\ \A i \in 1..Len(balls') :
                    /\ balls'[i].meshPos = bodies'[balls'[i].body].pos
                    /\ ~checkForGoal(balls'[i].meshPos)
                    /\ balls'[i].meshPos.z >= RearZ
            /\ game' = "animating"
       /\ \/ handBody' = handMesh
          \/ AnimateNoHands
          \/ PoseResult]_vars

\* the hands have moved, a frame without the hand bodies left the bodies
\* behind, and the ball that met the left hand body in that frame was deflected
\* from where the hand is now
C21_Witness ==
    /\ handBody # handMesh
    /\ 1 \in LiveIds
    /\ HandEventsOf(1) # {}
    /\ savesCount = savesAtFrame + 1
    /\ bodies[1].vel = DeflectedFrom(1, handMesh.left)
    /\ bodies[1].vel # DeflectedFrom(1, handBody.left)

\* C22: between frames the event queue is empty, and the saves counted in
\* the last frame are the hand/ball events which the step of that frame
\* produced, each once: none is left for a later frame and none of an
\* earlier frame is handled again.
C22_EventsConsumedOnce ==
    /\ eventQueue = <<>>
    /\ savesCount = savesAtFrame + CountHandBall(lastEvents)
    /\ savesCount = contacts

\* two hand/ball events were handled in the frames that produced them, and a
\* later frame, whose step produced none, counted nothing
C22_Witness ==
    /\ contacts = 2
    /\ savesCount = 2
    /\ lastEvents = <<>>
    /\ savesAtFrame = 2
    /\ eventQueue = <<>>
    /\ \E id \in removedGoal : <<id, "hand">> \in touches

\* every collider an event can name: the hands, the goal, the colliders of
\* the balls made so far (live or removed) and one that was never made
AnyColliders ==
    {leftHandCollider, rightHandCollider, GoalCollider}
        \cup {BallCollider(i) : i \in 1..nextId}

AnyEvents == {[c1 |-> a, c2 |-> b] : a \in AnyColliders, b \in AnyColliders}

\* the live ball of a hand/ball pair, 0 for any other pair
ResolvedBall(e) ==
    IF e.c1.kind = "hand" /\ e.c2.kind = "ball" /\ e.c2.id \in LiveIds
    THEN e.c2.id
    ELSE IF e.c2.kind = "hand" /\ e.c1.kind = "ball" /\ e.c1.id \in LiveIds
    THEN e.c1.id
    ELSE 0

\* C23: handling an event that pairs a hand with the collider of a live ball
\* counts one save and changes the body of that ball only; handling any other
\* event (ball/ball, ball/goal, hand/hand, a collider of a removed ball or of
\* no ball) changes nothing: no counter, no velocity, no body.
C23_OnlyHandBallResolves ==
    \A e \in AnyEvents :
        LET r == HandleEvent(Cur, e, handMesh)
            id == ResolvedBall(e)
        IN  IF id = 0
            THEN r = Cur
            ELSE /\ r.savesCount = savesCount + 1
                 /\ r.goalsCount = goalsCount
                 /\ r.balls = balls
                 /\ DOMAIN r.bodies = DOMAIN bodies
                 /\ \A j \in DOMAIN bodies \ {id} : r.bodies[j] = bodies[j]
                 /\ r.bodies[id].pos = bodies[id].pos
                 /\ r.bodies[id].vel.z > 0

\* the step of the last frame reported a ball at a goalpost and no hand: the
\* frame counted no save, and one ball is gone while another is live
C23_Witness ==
    /\ lastEvents # <<>>
    /\ \A i \in 1..Len(lastEvents) : ~IsHandBall(lastEvents[i])
    /\ \E i \in 1..Len(lastEvents) :
            /\ lastEvents[i].c1 = GoalCollider
            /\ lastEvents[i].c2.id \in LiveIds
    /\ savesCount = savesAtFrame
    /\ removedGoal # {}

\* C24: no ball for which the last frame handled a hand contact and counted
\* a save was also counted as a goal and removed by the goal test of that
\* frame.
C24_NeverSavedAndScored ==
    \A id \in 1..(nextId - 1) :
        (HandEventsOf(id) # {} /\ savesCount > savesAtFrame)
            => id \notin removedGoal

\* C25: between frames the balls made so far are the live balls, the balls
\* counted as goals and the balls removed behind the goal, each ball in one
\* of the three; a ball that left the live collection left it through the
\* goal test or the rear test and does not come back.
C25_BallAccounting ==
    /\ [](/\ nextId - 1 = Len(balls) + goalsCount + Cardinality(removedRear)
          /\ Len(shots) = nextId - 1
          /\ Cardinality(LiveIds) = Len(balls)
          /\ goalsCount = Cardinality(removedGoal)
          /\ LiveIds \cup removedGoal \cup removedRear = 1..(nextId - 1)
          /\ LiveIds \cap removedGoal = {}
          /\ LiveIds \cap removedRear = {}
          /\ removedGoal \cap removedRear = {}
          /\ DOMAIN bodies = LiveIds)
    /\ [][/\ removedGoal \subseteq removedGoal'
          /\ removedRear \subseteq removedRear'
          /\ LiveIds' \cap (removedGoal \cup removedRear) = {}
          /\ LiveIds \ LiveIds'
                \subseteq (removedGoal' \ removedGoal)
                            \cup (removedRear' \ removedRear)]_vars

\* two balls were made; one was counted as a goal, the other was removed
\* behind the goal
C25_Witness ==
    /\ nextId = 3
    /\ Cardinality(removedGoal) = 1
    /\ Cardinality(removedRear) = 1
    /\ balls = <<>>
    /\ goalsCount = 1

\* the time of the last shot that made a ball, 0 when there was none
LastSuccessfulShot(sh) == IF sh = <<>> THEN 0 ELSE sh[Len(sh)]

\* C26: the first frame, which initializeGame runs, makes a ball; after every
\* frame the last shot that made a ball is less than SHOT_INTERVAL old; and
\* a chat command makes a ball only when the last such shot is SHOT_INTERVAL
\* old or older.
C26_FrameLoopDrivesShots ==
    [][/\ (InitializeGame /\ game' = "animating")
            => Len(balls') = 1 /\ Len(shots') = 1
       /\ ((InitializeGame /\ game' = "animating") \/ Animate)
            => /\ shots' # <<>>
               /\ now - LastSuccessfulShot(shots') < SHOT_INTERVAL
       /\ (ChatMessage /\ Len(balls') > Len(balls))
            => now - LastSuccessfulShot(shots) >= SHOT_INTERVAL]_vars

====
